---- MODULE Spec2Model ----
(***************************************************************************)
(* A model of cluster.py, the mcmicro FastPG driver: the main program      *)
(* resolves the output directory, loads the marker list, resolves the      *)
(* transform mode, derives the output file names, cleans the input table   *)
(* and runs the external clustering script.                                *)
(*                                                                         *)
(* Python strings are sequences of one-character strings, so that strip,   *)
(* split, rfind, slicing, the `in` test and re.match are computed the way  *)
(* Python computes them.  An optional value (None, or a global not yet     *)
(* assigned) is the empty sequence None and a present value v is Some(v).  *)
(***************************************************************************)
EXTENDS Integers, Sequences, FiniteSets, TLC

None == <<>>
Some(v) == <<v>>
IsSome(o) == o # <<>>
Val(o) == o[1]

(***************************************************************************)
(* Bounds of the model.                                                    *)
(***************************************************************************)
\* the longest marker file, in lines
MaxMarkers == 3
\* the widest input table of the bounded enumeration, in columns
MaxCols == 3
\* the longest config file, in lines
MaxConfigLines == 2

(***************************************************************************)
(* Python's string primitives.                                             *)
(***************************************************************************)
Whitespace == {" ", "\t", "\n", "\r"}
Digits == {"0", "1", "2", "3", "4", "5", "6", "7", "8", "9"}
DigitChars == <<"0", "1", "2", "3", "4", "5", "6", "7", "8", "9">>

RECURSIVE LStrip(_)
LStrip(s) == IF s # <<>> /\ Head(s) \in Whitespace THEN LStrip(Tail(s)) ELSE s

RECURSIVE RStrip(_)
RStrip(s) == IF s # <<>> /\ s[Len(s)] \in Whitespace
             THEN RStrip(SubSeq(s, 1, Len(s) - 1)) ELSE s

\* str.strip()
Strip(s) == RStrip(LStrip(s))

\* sub in s
Contains(sub, s) ==
    \E i \in 1..(Len(s) - Len(sub) + 1) : SubSeq(s, i, i + Len(sub) - 1) = sub

\* s.rfind(c) for a one-character c: the 0-based index of the last c, or -1
RECURSIVE RFindFrom(_, _, _)
RFindFrom(s, c, i) == IF i = 0 THEN -1
                      ELSE IF s[i] = c THEN i - 1
                      ELSE RFindFrom(s, c, i - 1)
RFind(s, c) == RFindFrom(s, c, Len(s))

\* s.split(c)[-1] for a one-character c: what follows the last c, or all of s
SplitLast(s, c) == SubSeq(s, RFind(s, c) + 2, Len(s))

\* s[:k], where a negative k counts from the end
SliceTo(s, k) == IF k >= 0 THEN SubSeq(s, 1, IF k < Len(s) THEN k ELSE Len(s))
                 ELSE SubSeq(s, 1, IF Len(s) + k > 0 THEN Len(s) + k ELSE 0)

\* s[:-1]
DropLast(s) == SliceTo(s, -1)

\* str(n) for an int n
RECURSIVE NatToStr(_)
NatToStr(n) == IF n < 10 THEN <<DigitChars[n + 1]>>
               ELSE NatToStr(n \div 10) \o <<DigitChars[(n % 10) + 1]>>
IntToStr(n) == IF n < 0 THEN <<"-">> \o NatToStr(-n) ELSE NatToStr(n)

\* str(b) for a bool b
BoolToStr(b) == IF b THEN <<"T","r","u","e">> ELSE <<"F","a","l","s","e">>

\* list.index(x): the 0-based index of the first x (x is in l)
Index(l, x) == (CHOOSE i \in 1..Len(l) : l[i] = x /\ \A j \in 1..(i - 1) : l[j] # x) - 1

\* list.pop(i) leaves l without its element at 0-based index i
Pop(l, i) == SubSeq(l, 1, i) \o SubSeq(l, i + 2, Len(l))

\* list.insert(0, x)
Insert0(l, x) == <<x>> \o l

Range(s) == {s[i] : i \in 1..Len(s)}

RECURSIVE SelectSeqNotIn(_, _)
SelectSeqNotIn(s, drop) ==
    IF s = <<>> THEN <<>>
    ELSE IF Head(s) \in drop THEN SelectSeqNotIn(Tail(s), drop)
    ELSE <<Head(s)>> \o SelectSeqNotIn(Tail(s), drop)

(***************************************************************************)
(* re.compile(feature).match(name), for the regular expressions of         *)
(* FEATURES_TO_REMOVE: a literal character, \d, and .* .  match anchors    *)
(* the pattern at the start of the name and not at its end.                *)
(***************************************************************************)
Lit(s) == [i \in 1..Len(s) |-> [t |-> "lit", c |-> s[i]]]
Digit == [t |-> "digit", c |-> ""]
AnyStar == [t |-> "anystar", c |-> ""]
Times(tok, n) == [i \in 1..n |-> tok]

RECURSIVE MatchAt(_, _, _, _)
MatchAt(pat, i, s, j) ==
    IF i > Len(pat) THEN TRUE
    ELSE CASE pat[i].t = "lit" ->
                j <= Len(s) /\ s[j] = pat[i].c /\ MatchAt(pat, i + 1, s, j + 1)
           [] pat[i].t = "digit" ->
                j <= Len(s) /\ s[j] \in Digits /\ MatchAt(pat, i + 1, s, j + 1)
           [] pat[i].t = "anystar" ->
                \E k \in j..(Len(s) + 1) :
                    /\ \A m \in j..(k - 1) : s[m] # "\n"
                    /\ MatchAt(pat, i + 1, s, k)

\* a faulty variant of ReMatch: re.fullmatch, which also anchors the pattern at the end
RECURSIVE FullMatchAt(_, _, _, _)
FullMatchAt(pat, i, s, j) ==
    IF i > Len(pat) THEN j = Len(s) + 1
    ELSE CASE pat[i].t = "lit" ->
                j <= Len(s) /\ s[j] = pat[i].c /\ FullMatchAt(pat, i + 1, s, j + 1)
           [] pat[i].t = "digit" ->
                j <= Len(s) /\ s[j] \in Digits /\ FullMatchAt(pat, i + 1, s, j + 1)
           [] pat[i].t = "anystar" ->
                \E k \in j..(Len(s) + 1) :
                    /\ \A m \in j..(k - 1) : s[m] # "\n"
                    /\ FullMatchAt(pat, i + 1, s, k)
ReFullMatch(pat, s) == FullMatchAt(pat, 1, s, 1)

ReMatch(pat, s) == MatchAt(pat, 1, s, 1)

\* the number of digits the secondary-antibody pattern asks for, \d{3}
AntibodyDigits == 3

FEATURES_TO_REMOVE == <<
    Lit(<<"X","_","c","e","n","t","r","o","i","d">>), Lit(<<"Y","_","c","e","n","t","r","o","i","d">>),
    Lit(<<"c","o","l","u","m","n","_","c","e","n","t","r","o","i","d">>), Lit(<<"r","o","w","_","c","e","n","t","r","o","i","d">>),
    Lit(<<"A","r","e","a">>), Lit(<<"M","a","j","o","r","A","x","i","s","L","e","n","g","t","h">>),
    Lit(<<"M","i","n","o","r","A","x","i","s","L","e","n","g","t","h">>), Lit(<<"E","c","c","e","n","t","r","i","c","i","t","y">>),
    Lit(<<"S","o","l","i","d","i","t","y">>), Lit(<<"E","x","t","e","n","t">>), Lit(<<"O","r","i","e","n","t","a","t","i","o","n">>),
    Lit(<<"D","N","A">>) \o <<AnyStar>>, Lit(<<"H","o","e","c","h","s","t">>) \o <<AnyStar>>,
    Lit(<<"D","A","P">>) \o <<AnyStar>>,
    Lit(<<"A","F">>) \o <<AnyStar>>,
    Lit(<<"A">>) \o Times(Digit, AntibodyDigits) \o <<AnyStar>> >>

CELL_ID == <<"C","e","l","l","I","D">>

(***************************************************************************)
(* The functions of cluster.py.                                            *)
(***************************************************************************)
\* getDataName(path): the file name of the path, cut at its last '.'
getDataName(path) ==
    LET fileName == SplitLast(path, "/")
    IN  SliceTo(fileName, RFind(fileName, "."))

\* get_markers(markers_file): the stripped lines of the file
get_markers(lines) == [i \in 1..Len(lines) |-> Strip(lines[i])]

TransformKey == <<"t","r","a","n","s","f","o","r","m",":">>

\* the loop of readConfig: every line holding the key assigns the local
\* variable, so the last such line decides; None is the variable left unbound
RECURSIVE ReadConfigLoop(_, _, _)
ReadConfigLoop(lines, i, tr) ==
    IF i > Len(lines) THEN tr
    ELSE ReadConfigLoop(lines, i + 1,
            IF Contains(TransformKey, Strip(lines[i]))
            THEN Some(Strip(SplitLast(lines[i], ":")))
            ELSE tr)

\* a faulty variant of readConfig: the loop stops at the first line holding the key
RECURSIVE ReadConfigFirstLoop(_, _)
ReadConfigFirstLoop(lines, i) ==
    IF i > Len(lines) THEN None
    ELSE IF Contains(TransformKey, Strip(lines[i]))
         THEN Some(Strip(SplitLast(lines[i], ":")))
         ELSE ReadConfigFirstLoop(lines, i + 1)
readConfigFirst(lines) == ReadConfigFirstLoop(lines, 1)

\* readConfig(file) on a readable file: Some(value), or None when the return
\* statement reads the unbound local (UnboundLocalError)
readConfig(lines) == ReadConfigLoop(lines, 1, None)

\* a faulty variant of ConfigResult: a config file without the key yields 'auto'
ConfigResultDefaulting(file) ==
    IF file = None THEN [err |-> "FileNotFoundError", val |-> None]
    ELSE IF readConfig(Val(file)) = None THEN [err |-> "", val |-> Some(<<"a","u","t","o">>)]
    ELSE [err |-> "", val |-> readConfig(Val(file))]

\* the call readConfig(args.config): open() fails on a missing file, the
\* return fails when no line held the key
ConfigResult(file) ==
    IF file = None THEN [err |-> "FileNotFoundError", val |-> None]
    ELSE IF readConfig(Val(file)) = None THEN [err |-> "UnboundLocalError", val |-> None]
    ELSE [err |-> "", val |-> readConfig(Val(file))]

\* a faulty variant of TransformRule: each flag decides alone, the other is not read
TransformRuleOneFlag(force, no, config) ==
    IF force THEN "true"
    ELSE IF no THEN "false"
    ELSE IF config # None THEN "config"
    ELSE "auto"

\* the if/elif chain of the main program that picks the transform rule
TransformRule(force, no, config) ==
    IF force /\ ~no THEN "true"
    ELSE IF ~force /\ no THEN "false"
    ELSE IF config # None THEN "config"
    ELSE "auto"

\* the output directory: '.' when absent, else without one trailing slash;
\* args.output[-1] of an empty string raises IndexError
ResolveOutputDir(out) ==
    IF out = None THEN [err |-> "", val |-> Some(<<".">>)]
    ELSE IF Val(out) = <<>> THEN [err |-> "IndexError", val |-> None]
    ELSE IF Val(out)[Len(Val(out))] = "/" THEN [err |-> "", val |-> Some(DropLast(Val(out)))]
    ELSE [err |-> "", val |-> Some(Val(out))]

\* a faulty variant of NormalizeMarkers: a CellID that is present is left where it is
NormalizeMarkersNoMove(m) ==
    IF CELL_ID \notin Range(m) THEN Insert0(m, CELL_ID) ELSE m

\* clean, lines 99-102: CellID is put in front of the marker list
NormalizeMarkers(m) ==
    IF CELL_ID \notin Range(m) THEN Insert0(m, CELL_ID)
    ELSE IF Index(m, CELL_ID) # 0 THEN Insert0(Pop(m, Index(m, CELL_ID)), CELL_ID)
    ELSE m

\* data[markers]: the listed columns in the list's order, or None (KeyError)
\* when a listed name is no column of the table
SelectColumns(cols, m) == IF Range(m) \subseteq Range(cols) THEN Some(m) ELSE None

\* list(filter(r.match, cols))
FilterMatch(pat, cols) == SelectSeq(cols, LAMBDA c : ReMatch(pat, c))

\* clean, lines 107-111: the columns matched by each feature, feature by feature
RECURSIVE ColToRemoveFrom(_, _)
ColToRemoveFrom(cols, k) ==
    IF k > Len(FEATURES_TO_REMOVE) THEN <<>>
    ELSE FilterMatch(FEATURES_TO_REMOVE[k], cols) \o ColToRemoveFrom(cols, k + 1)
ColToRemove(cols) == ColToRemoveFrom(cols, 1)

\* data.drop(columns=col_to_remove): the other columns, in the table's order
DropColumns(cols, drop) == SelectSeqNotIn(cols, Range(drop))

\* bool(args.markers): a path that is given and not empty
Truthy(o) == IsSome(o) /\ Val(o) # <<>>

\* f'{a}/{b}'
PathJoin(a, b) == a \o <<"/">> \o b

\* a faulty variant of RArgs: the two output file names change places
RArgsSwapped(a, out, cleanFile, cellsFile, clustersFile, tr) ==
    << PathJoin(out, cleanFile), IntToStr(a.neighbors), IntToStr(a.num_threads),
       out, clustersFile, cellsFile, BoolToStr(a.method), tr >>

\* runFastPG, line 134: the arguments of the R script
RArgs(a, out, cleanFile, cellsFile, clustersFile, tr) ==
    << PathJoin(out, cleanFile), IntToStr(a.neighbors), IntToStr(a.num_threads),
       out, cellsFile, clustersFile, BoolToStr(a.method), tr >>

\* get_path(): the directory of the script
ScriptDir == <<"/","a","p","p">>
RScript == << <<"R","s","c","r","i","p","t">>, PathJoin(ScriptDir, <<"r","u","n","F","a","s","t","P","G",".","r">>) >>

\* the statements of the main program, in order
Steps == << "output", "markers", "transform", "names", "clean", "run", "done" >>

\* a faulty variant of Goto: an exception raised by clean is swallowed
GotoSwallow(step, ok) ==
    IF ok \/ step = "clean"
    THEN Steps[(CHOOSE i \in 1..Len(Steps) : Steps[i] = step) + 1]
    ELSE "failed"

\* control after a statement: the next statement, or, when it raised, the end
\* of the run (no exception is caught anywhere)
Goto(step, ok) ==
    IF ok THEN Steps[(CHOOSE i \in 1..Len(Steps) : Steps[i] = step) + 1]
    ELSE "failed"

(***************************************************************************)
(* The state of a run.                                                     *)
(***************************************************************************)
VARIABLES
    args,             \* the parsed command line
    fs,               \* the files the run reads, and whether it can write
    pc,               \* the statement of the main program that runs next
    error,            \* the exception that ended the run, "" when none
    output,           \* the globals of the main program, None until assigned
    markers,
    transform,
    data_prefix,
    clean_data_file,
    clusters_file,
    cells_file,
    written,          \* the cleaned table written by to_csv: path and columns
    command,          \* the command handed to subprocess.check_output
    modularity,       \* what the R script printed
    log               \* the steps of the run so far

vars == << args, fs, pc, error, output, markers, transform, data_prefix,
           clean_data_file, clusters_file, cells_file, written, command,
           modularity, log >>

globals == << output, markers, transform, data_prefix, clean_data_file,
              clusters_file, cells_file >>

(***************************************************************************)
(* The inputs the runs are drawn from.                                     *)
(***************************************************************************)
SeqsUpTo(S, n) == UNION {[1..k -> S] : k \in 0..n}
DistinctSeqs(S, n) ==
    {s \in SeqsUpTo(S, n) : Len(s) >= 1 /\ \A i, j \in 1..Len(s) : s[i] = s[j] => i = j}

ConfigLineSet == { <<"t","r","a","n","s","f","o","r","m",":"," ","t","r","u","e","\n">>, <<"t","r","a","n","s","f","o","r","m",":"," ","f","a","l","s","e","\n">>,
                   <<" "," ","t","r","a","n","s","f","o","r","m",":"," ","a","u","t","o"," ","\n">>, <<"n","a","m","e",":"," ","x","\n">>,
                   <<"t","r","a","n","s","f","o","r","m",":"," ","t",":","f","\n">> }
ConfigFiles == SeqsUpTo(ConfigLineSet, MaxConfigLines)

MarkerLineSet == { <<"C","e","l","l","I","D","\n">>, <<"C","D","3","\n">>, <<"C","D","8","\n">>, <<"C","D","4","\n">> }
MarkerFiles == SeqsUpTo(MarkerLineSet, MaxMarkers)

\* column names of the tables cleaned with a marker list
MarkedColumnNames == { CELL_ID, <<"C","D","3">>, <<"C","D","8">>, <<"X","_","c","e","n","t","r","o","i","d">> }
\* column names of the tables cleaned without one
ColumnNames == { CELL_ID, <<"X","_","c","e","n","t","r","o","i","d">>, <<"A","r","e","a","s">>, <<"D","N","A","1">>, <<"A","F","4","8","8">>,
                 <<"A","4","8","8">>, <<"A","4","8">>, <<"A","4","8","8","5">>, <<"x","D","N","A","1">>, <<"C","D","3">> }
ScenarioTable == << CELL_ID, <<"X","_","c","e","n","t","r","o","i","d">>, <<"D","N","A","1">>, <<"A","F","4","8","8">>, <<"A","4","8","8">>,
                    <<"C","D","3">>, <<"C","D","8">> >>
PlainTable == << CELL_ID, <<"C","D","3">>, <<"C","D","8">> >>

InputPaths == { <<"d","a","t","a",".","c","s","v">>, <<"i","n","/","s","1",".","c","s","v">>, <<"a",".","b",".","c","s","v">>, <<"s","1">>, <<"d",".","x","/","s","1">> }
OutputDirs == { None, Some(<<"o","u","t">>), Some(<<"o","u","t","/">>), Some(<<"a","/","b","/">>),
                Some(<<"o","/","/">>), Some(<<"/">>), Some(<<>>) }
NeighborCounts == {1, 30}
ThreadCounts == {1, 12}

ConfigPath == <<"c","o","n","f","i","g",".","y","m","l">>
MarkersPath == <<"m","a","r","k","e","r","s",".","t","x","t">>

DefaultArgs ==
    [ input |-> <<"d","a","t","a",".","c","s","v">>, output |-> None, markers |-> None,
      neighbors |-> 30, num_threads |-> 1, method |-> FALSE,
      config |-> None, force_transform |-> FALSE, no_transform |-> FALSE ]

DefaultFs ==
    [ input |-> Some(PlainTable), markers |-> None, config |-> None,
      outdir_exists |-> TRUE ]

Fresh ==
    /\ pc = "output"
    /\ error = ""
    /\ output = None /\ markers = None /\ transform = None
    /\ data_prefix = None /\ clean_data_file = None
    /\ clusters_file = None /\ cells_file = None
    /\ written = None /\ command = None /\ modularity = None
    /\ log = <<>>

\* runs that differ in the transform flags and the config file
InitTransform ==
    /\ \E f, n \in BOOLEAN :
       \E c \in {None, Some(ConfigPath)} :
          args = [DefaultArgs EXCEPT !.force_transform = f, !.no_transform = n,
                                     !.config = c]
    /\ \E file \in {None} \cup {Some(c) : c \in ConfigFiles} :
          /\ args.config = None => file = None
          /\ fs = [DefaultFs EXCEPT !.config = file]
    /\ Fresh

\* runs that differ in the marker file and the input table
InitClean ==
    /\ \/ /\ args = [DefaultArgs EXCEPT !.markers = Some(MarkersPath)]
          /\ \E m \in {None} \cup {Some(l) : l \in MarkerFiles} :
             \E t \in {None} \cup {Some(c) : c \in DistinctSeqs(MarkedColumnNames, MaxCols)} :
                fs = [DefaultFs EXCEPT !.markers = m, !.input = t]
       \/ /\ args = DefaultArgs
          /\ \E t \in {None, Some(ScenarioTable)}
                      \cup {Some(c) : c \in DistinctSeqs(ColumnNames, MaxCols)} :
                fs = [DefaultFs EXCEPT !.input = t]
    /\ Fresh

\* runs that differ in the paths and the numbers handed to the R script
InitInvoke ==
    /\ \E i \in InputPaths, o \in OutputDirs, k \in NeighborCounts,
          n \in ThreadCounts, c, f \in BOOLEAN :
          args = [DefaultArgs EXCEPT !.input = i, !.output = o, !.neighbors = k,
                                     !.num_threads = n, !.method = c,
                                     !.force_transform = f]
    /\ \E w \in BOOLEAN : fs = [DefaultFs EXCEPT !.outdir_exists = w]
    /\ Fresh

Init == InitTransform \/ InitClean \/ InitInvoke

(***************************************************************************)
(* The statements of the main program.                                     *)
(***************************************************************************)
Raise(step, e) ==
    /\ pc' = Goto(step, FALSE)
    /\ error' = e
    /\ log' = Append(log, "fail")

\* lines 168-174
ResolveOutput ==
    /\ pc = "output"
    /\ LET r == ResolveOutputDir(args.output)
       IN  IF r.err # ""
           THEN Raise("output", r.err) /\ output' = output
           ELSE /\ output' = r.val
                /\ pc' = Goto("output", TRUE)
                /\ UNCHANGED << error, log >>
    /\ UNCHANGED << args, fs, markers, transform, data_prefix, clean_data_file,
                    clusters_file, cells_file, written, command, modularity >>

\* lines 176-178
LoadMarkers ==
    /\ pc = "markers"
    /\ IF args.markers = None
       THEN /\ pc' = Goto("markers", TRUE)
            /\ UNCHANGED << markers, error, log >>
       ELSE IF fs.markers = None \/ Val(args.markers) = <<>>
       THEN Raise("markers", "FileNotFoundError") /\ markers' = markers
       ELSE /\ markers' = Some(get_markers(Val(fs.markers)))
            /\ pc' = Goto("markers", TRUE)
            /\ UNCHANGED << error, log >>
    /\ UNCHANGED << args, fs, output, transform, data_prefix, clean_data_file,
                    clusters_file, cells_file, written, command, modularity >>

\* lines 180-188
ResolveTransform ==
    /\ pc = "transform"
    /\ LET rule == TransformRule(args.force_transform, args.no_transform, args.config)
           r == IF rule = "config" THEN ConfigResult(fs.config)
                ELSE [err |-> "",
                      val |-> Some(CASE rule = "true" -> <<"t","r","u","e">>
                                     [] rule = "false" -> <<"f","a","l","s","e">>
                                     [] rule = "auto" -> <<"a","u","t","o">>)]
       IN  IF r.err # ""
           THEN Raise("transform", r.err) /\ transform' = transform
           ELSE /\ transform' = r.val
                /\ pc' = Goto("transform", TRUE)
                /\ error' = error
                /\ log' = Append(log, "transform")
    /\ UNCHANGED << args, fs, output, markers, data_prefix, clean_data_file,
                    clusters_file, cells_file, written, command, modularity >>

\* lines 190-197
SetNames ==
    /\ pc = "names"
    /\ LET p == getDataName(args.input)
       IN  /\ data_prefix' = Some(p)
           /\ clean_data_file' = Some(p \o <<"-","c","l","e","a","n",".","c","s","v">>)
           /\ clusters_file' = Some(p \o <<"-","c","l","u","s","t","e","r","s",".","c","s","v">>)
           /\ cells_file' = Some(p \o <<"-","c","e","l","l","s",".","c","s","v">>)
    /\ pc' = Goto("names", TRUE)
    /\ UNCHANGED << args, fs, error, output, markers, transform, written,
                    command, modularity, log >>

\* line 200, clean(args.input): lines 77-120
Clean ==
    /\ pc = "clean"
    /\ IF fs.input = None
       THEN Raise("clean", "FileNotFoundError") /\ UNCHANGED << markers, written >>
       ELSE LET cols == Val(fs.input)
                byList == Truthy(args.markers)
                norm == IF byList THEN Some(NormalizeMarkers(Val(markers))) ELSE markers
                data == IF byList THEN SelectColumns(cols, Val(norm))
                        ELSE Some(DropColumns(cols, ColToRemove(cols)))
            IN  /\ markers' = norm
                /\ IF data = None
                   THEN Raise("clean", "KeyError") /\ written' = written
                   ELSE IF ~fs.outdir_exists
                   THEN Raise("clean", "OSError") /\ written' = written
                   ELSE /\ written' = Some([path |-> PathJoin(Val(output), Val(clean_data_file)),
                                            columns |-> Val(data)])
                        /\ pc' = Goto("clean", TRUE)
                        /\ error' = error
                        /\ log' = Append(log, "write")
    /\ UNCHANGED << args, fs, output, transform, data_prefix, clean_data_file,
                    clusters_file, cells_file, command, modularity >>

\* line 203, runFastPG(): lines 126-144
RunFastPG ==
    /\ pc = "run"
    /\ command' = Some(RScript \o RArgs(args, Val(output), Val(clean_data_file),
                                        Val(cells_file), Val(clusters_file),
                                        Val(transform)))
    /\ \E exit \in {"zero", "nonzero"} :
          IF exit = "zero"
          THEN /\ modularity' = Some(<<"0",".","8","5","\n">>)
               /\ pc' = Goto("run", TRUE)
               /\ error' = error
               /\ log' = Append(log, "invoke")
          ELSE /\ modularity' = modularity
               /\ pc' = Goto("run", FALSE)
               /\ error' = "CalledProcessError"
               /\ log' = log \o << "invoke", "fail" >>
    /\ UNCHANGED << args, fs, output, markers, transform, data_prefix,
                    clean_data_file, clusters_file, cells_file, written >>

Next ==
    \/ ResolveOutput
    \/ LoadMarkers
    \/ ResolveTransform
    \/ SetNames
    \/ Clean
    \/ RunFastPG

Spec == Init /\ [][Next]_vars

(***************************************************************************)
(* Definitions the properties are stated with.  They say what the claims   *)
(* say, and do not use the operators that model the code.                  *)
(***************************************************************************)
StartsWith(s, p) == Len(s) >= Len(p) /\ SubSeq(s, 1, Len(p)) = p
EndsWith(s, p) == Len(s) >= Len(p) /\ SubSeq(s, Len(s) - Len(p) + 1, Len(s)) = p
Distinct(s) == \A i, j \in 1..Len(s) : s[i] = s[j] => i = j
Without(s, x) == SelectSeq(s, LAMBDA e : e # x)
Max(S) == CHOOSE x \in S : \A y \in S : y <= x
Min(S) == CHOOSE x \in S : \A y \in S : x <= y

\* the flags leave the decision to the config file or to the default
FlagsUndecided == args.force_transform = args.no_transform

\* the lines of a config file that hold the key token
KeyLines(lines) == {i \in 1..Len(lines) : Contains(TransformKey, lines[i])}

\* what follows the first occurrence of the key token on a line
AfterKey(line) ==
    LET at == Min({i \in 1..(Len(line) - Len(TransformKey) + 1) :
                     SubSeq(line, i, i + Len(TransformKey) - 1) = TransformKey})
    IN  SubSeq(line, at + Len(TransformKey), Len(line))

\* what follows the last colon of a line
AfterLastColon(line) ==
    SubSeq(line, Max({i \in 1..Len(line) : line[i] = ":"}) + 1, Len(line))

\* the mode a config file with a key line stands for, by the code's rule
LastKeyValue(lines) == Strip(AfterLastColon(lines[Max(KeyLines(lines))]))
\* and by the rule of the specification
FirstKeyValue(lines) == Strip(AfterKey(lines[Min(KeyLines(lines))]))

\* the mode was read from the config file
ResolvedByConfig ==
    /\ FlagsUndecided /\ args.config # None /\ fs.config # None
    /\ IsSome(transform)

\* a name one of the built-in exclusion patterns matches at its start
ExclusionPrefixes ==
    { <<"X","_","c","e","n","t","r","o","i","d">>, <<"Y","_","c","e","n","t","r","o","i","d">>, <<"c","o","l","u","m","n","_","c","e","n","t","r","o","i","d">>, <<"r","o","w","_","c","e","n","t","r","o","i","d">>,
      <<"A","r","e","a">>, <<"M","a","j","o","r","A","x","i","s","L","e","n","g","t","h">>, <<"M","i","n","o","r","A","x","i","s","L","e","n","g","t","h">>, <<"E","c","c","e","n","t","r","i","c","i","t","y">>,
      <<"S","o","l","i","d","i","t","y">>, <<"E","x","t","e","n","t">>, <<"O","r","i","e","n","t","a","t","i","o","n">>,
      <<"D","N","A">>, <<"H","o","e","c","h","s","t">>, <<"D","A","P">>, <<"A","F">> }
Excluded(name) ==
    \/ \E p \in ExclusionPrefixes : StartsWith(name, p)
    \/ /\ Len(name) >= 4
       /\ name[1] = "A"
       /\ \A i \in 2..4 : name[i] \in Digits

\* the decimal number a string of digits writes
RECURSIVE StrToNat(_)
StrToNat(s) ==
    IF s = <<>> THEN 0
    ELSE 10 * StrToNat(SubSeq(s, 1, Len(s) - 1))
         + (CHOOSE d \in 0..9 : DigitChars[d + 1] = s[Len(s)])

\* the marker list as read from the marker file, before clean changes it
MarkerList == [i \in 1..Len(Val(fs.markers)) |-> Strip(Val(fs.markers)[i])]

\* the run ended in the transform step
TransformStepFailed ==
    /\ pc = "failed" /\ log = <<"fail">>
    /\ IsSome(output)
    /\ args.markers = None \/ IsSome(markers)

\* clean has been through its marker-list branch
MarkersNormalized ==
    /\ Truthy(args.markers) /\ fs.input # None
    /\ \/ pc \in {"run", "done"}
       \/ pc = "failed" /\ error \in {"KeyError", "OSError", "CalledProcessError"}

(***************************************************************************)
(* C1: the transform mode follows first-match precedence: force alone      *)
(* gives 'true', no-transform alone gives 'false', and with both flags or  *)
(* neither the mode is the config file's value when a config path was      *)
(* given and 'auto' when none was; both flags together are no error and    *)
(* decide nothing.                                                         *)
(***************************************************************************)
C1_TransformPrecedence ==
    /\ IsSome(transform) =>
          /\ (args.force_transform /\ ~args.no_transform) => Val(transform) = <<"t","r","u","e">>
          /\ (~args.force_transform /\ args.no_transform) => Val(transform) = <<"f","a","l","s","e">>
          /\ (FlagsUndecided /\ args.config = None) => Val(transform) = <<"a","u","t","o">>
          /\ (FlagsUndecided /\ args.config # None) =>
                /\ fs.config # None
                /\ KeyLines(Val(fs.config)) # {}
                /\ Val(transform) = LastKeyValue(Val(fs.config))
    /\ (pc \in {"names", "clean", "run", "done"}) => IsSome(transform)
    /\ (~FlagsUndecided \/ args.config = None) => ~TransformStepFailed

C1_Witness ==
    /\ args.force_transform /\ args.no_transform /\ args.config # None
    /\ transform = Some(<<"f","a","l","s","e">>)
    /\ pc = "done"

(***************************************************************************)
(* C2: without a marker list, every column kept in the cleaned table       *)
(* matches no exclusion pattern at the start of its name, every column     *)
(* dropped matches one, the kept columns stay in the source order, and a   *)
(* table no pattern matches is written unchanged, without error.           *)
(***************************************************************************)
C2_ExclusionMode ==
    /\ (args.markers = None /\ IsSome(written)) =>
          LET cols == Val(fs.input)
              out == Val(written).columns
          IN  /\ \A c \in Range(out) : ~Excluded(c)
              /\ \A c \in Range(cols) \ Range(out) : Excluded(c)
              /\ out = SelectSeq(cols, LAMBDA c : c \in Range(out))
              /\ (\A c \in Range(cols) : ~Excluded(c)) => out = cols
    /\ (args.markers = None /\ fs.input # None /\ fs.outdir_exists
        /\ pc \in {"run", "done", "failed"} /\ IsSome(clean_data_file)) => IsSome(written)

C2_Witness ==
    /\ args.markers = None
    /\ fs.input = Some(ScenarioTable)
    /\ IsSome(written)
    /\ Val(written).columns = << CELL_ID, <<"C","D","3">>, <<"C","D","8">> >>

(***************************************************************************)
(* C3: clean normalizes a marker list of distinct names to 'CellID'        *)
(* followed by the other entries in their original order, whether the      *)
(* list lacked 'CellID' or held it at any position; 'CellID' occurs once.  *)
(***************************************************************************)
C3_MarkerNormalization ==
    (MarkersNormalized /\ Distinct(MarkerList)) =>
        /\ Val(markers) = <<CELL_ID>> \o Without(MarkerList, CELL_ID)
        /\ Cardinality({i \in 1..Len(Val(markers)) : Val(markers)[i] = CELL_ID}) = 1

C3_Witness ==
    /\ MarkersNormalized
    /\ MarkerList = << <<"C","D","3">>, CELL_ID, <<"C","D","8">> >>
    /\ Val(markers) = << CELL_ID, <<"C","D","3">>, <<"C","D","8">> >>
    /\ pc = "done"

(***************************************************************************)
(* C4: whenever clean writes a cleaned table, with a marker list (of        *)
(* distinct names) or without one, 'CellID' is its first column and no     *)
(* column name occurs twice.                                               *)
(***************************************************************************)
C4_CellIdFirstNoDuplicates ==
    (IsSome(written) /\ (Truthy(args.markers) => Distinct(MarkerList))) =>
        LET out == Val(written).columns
        IN  /\ Len(out) >= 1
            /\ out[1] = CELL_ID
            /\ Distinct(out)

(***************************************************************************)
(* C5: a source table without a 'CellID' column makes clean fail, with or  *)
(* without a marker list: nothing is written and the external program is   *)
(* not run; no run writes a cleaned table that lacks 'CellID'.             *)
(***************************************************************************)
C5_MissingIdentityColumnFails ==
    /\ (fs.input # None /\ CELL_ID \notin Range(Val(fs.input))) =>
          /\ written = None
          /\ command = None
          /\ pc \notin {"run", "done"}
    /\ IsSome(written) => CELL_ID \in Range(Val(written).columns)

(***************************************************************************)
(* C6: when the config rule is reached and no line of the config file      *)
(* holds 'transform:', readConfig fails: no mode is returned, no default   *)
(* such as 'auto' is used, and neither cleaning nor the external program   *)
(* happens in that run.                                                    *)
(***************************************************************************)
C6_ConfigWithoutKeyFails ==
    (FlagsUndecided /\ args.config # None /\ fs.config # None
     /\ KeyLines(Val(fs.config)) = {}) =>
        /\ pc \in {"output", "markers", "transform", "failed"}
        /\ transform = None
        /\ written = None
        /\ command = None
        /\ TransformStepFailed => error = "UnboundLocalError"

C6_Witness ==
    /\ FlagsUndecided /\ args.config # None /\ fs.config # None
    /\ Len(Val(fs.config)) >= 1
    /\ KeyLines(Val(fs.config)) = {}
    /\ pc = "failed" /\ error = "UnboundLocalError"
    /\ log = <<"fail">>

(***************************************************************************)
(* C7: the arguments of the external program are, in this order, the       *)
(* cleaned-table path, the neighbor count, the thread count, the output    *)
(* directory, the cells file name, the clusters file name, the method      *)
(* flag and the transform mode, all as strings; the first is the path at   *)
(* which clean wrote the cleaned table, whatever the output directory.     *)
(***************************************************************************)
C7_ArgumentVector ==
    IsSome(command) =>
        LET a == SubSeq(Val(command), Len(RScript) + 1, Len(Val(command)))
            dir == IF args.output = None THEN <<".">>
                   ELSE IF EndsWith(Val(args.output), <<"/">>)
                        THEN SubSeq(Val(args.output), 1, Len(Val(args.output)) - 1)
                        ELSE Val(args.output)
        IN  /\ Len(a) = 8
            /\ IsSome(written) /\ a[1] = Val(written).path
            /\ a[1] = dir \o <<"/">> \o Val(clean_data_file)
            /\ EndsWith(a[1], <<"-","c","l","e","a","n",".","c","s","v">>)
            /\ StrToNat(a[2]) = args.neighbors /\ Range(a[2]) \subseteq Digits
            /\ StrToNat(a[3]) = args.num_threads /\ Range(a[3]) \subseteq Digits
            /\ a[4] = dir
            /\ a[5] = Val(cells_file) /\ EndsWith(a[5], <<"-","c","e","l","l","s",".","c","s","v">>)
            /\ a[6] = Val(clusters_file) /\ EndsWith(a[6], <<"-","c","l","u","s","t","e","r","s",".","c","s","v">>)
            /\ a[7] = (IF args.method THEN <<"T","r","u","e">> ELSE <<"F","a","l","s","e">>)
            /\ a[8] = Val(transform)

C7_Witness ==
    /\ IsSome(command)
    /\ args.output = Some(<<"o","u","t","/">>)
    /\ args.input = <<"i","n","/","s","1",".","c","s","v">>
    /\ args.neighbors = 30 /\ args.num_threads = 12 /\ args.method
    /\ Val(written).path = <<"o","u","t","/","s","1","-","c","l","e","a","n",".","c","s","v">>
    /\ Val(command)[3] = <<"o","u","t","/","s","1","-","c","l","e","a","n",".","c","s","v">>
    /\ Val(command)[4] = <<"3","0">>
    /\ pc = "done"

(***************************************************************************)
(* C8: the steps of a run happen in strict order: transform resolution,    *)
(* cleaning, external invocation.  The external program runs only after    *)
(* the cleaned table is written, at most once, and never after a failure;  *)
(* a failure ends the run.                                                 *)
(***************************************************************************)
StepLogs ==
    LET order == << "transform", "write", "invoke" >>
    IN  {SubSeq(order, 1, k) : k \in 0..3} \cup {Append(SubSeq(order, 1, k), "fail") : k \in 0..3}

C8_StrictOrder ==
    /\ log \in StepLogs
    /\ IsSome(command) => IsSome(written)
    /\ IsSome(written) => IsSome(transform)
    /\ pc = "failed" <=> (log # <<>> /\ log[Len(log)] = "fail")
    /\ pc = "failed" => error # "" /\ ~ENABLED Next
    /\ pc = "done" => log = << "transform", "write", "invoke" >> /\ ~ENABLED Next

C8_Witness ==
    /\ pc = "done"
    /\ log = << "transform", "write", "invoke" >>
    /\ IsSome(written) /\ IsSome(command)

(***************************************************************************)
(* C9: the generated file names are '<p>-clean.csv', '<p>-cells.csv' and   *)
(* '<p>-clusters.csv', <p> being the input's basename without its          *)
(* extension: the whole basename when it has none, and all but the last    *)
(* extension when it has several dots.                                     *)
(***************************************************************************)
BaseNameNoExt ==
    LET slashes == {i \in 1..Len(args.input) : args.input[i] = "/"}
        base == IF slashes = {} THEN args.input
                ELSE SubSeq(args.input, Max(slashes) + 1, Len(args.input))
        dots == {i \in 1..Len(base) : base[i] = "."}
    IN  IF dots = {} THEN base ELSE SubSeq(base, 1, Max(dots) - 1)

C9_GeneratedNames ==
    IsSome(clean_data_file) =>
        /\ Val(clean_data_file) = BaseNameNoExt \o <<"-","c","l","e","a","n",".","c","s","v">>
        /\ Val(cells_file) = BaseNameNoExt \o <<"-","c","e","l","l","s",".","c","s","v">>
        /\ Val(clusters_file) = BaseNameNoExt \o <<"-","c","l","u","s","t","e","r","s",".","c","s","v">>

(***************************************************************************)
(* C10, as stated: the mode read from the config file is what follows      *)
(* 'transform:' on the first line that holds it, trimmed; later lines      *)
(* holding the token change nothing.                                       *)
(***************************************************************************)
C10_FirstKeyLine ==
    ResolvedByConfig => Val(transform) = FirstKeyValue(Val(fs.config))

(***************************************************************************)
(* C10, amended: the mode read from the config file is what follows the    *)
(* last colon of the last line that holds 'transform:', trimmed.           *)
(***************************************************************************)
C10_LastKeyLine ==
    ResolvedByConfig =>
        /\ KeyLines(Val(fs.config)) # {}
        /\ Val(transform) = LastKeyValue(Val(fs.config))

C10_Witness ==
    /\ ResolvedByConfig
    /\ Val(fs.config) = << <<"t","r","a","n","s","f","o","r","m",":"," ","t","r","u","e","\n">>, <<"t","r","a","n","s","f","o","r","m",":"," ","f","a","l","s","e","\n">> >>
    /\ transform = Some(<<"f","a","l","s","e">>)
    /\ pc = "done"
====
